---------------------------- MODULE Spec2Model ----------------------------
(***************************************************************************)
(* A model of the RA8875 display driver (src/src/lib.rs).                  *)
(*                                                                         *)
(* The driver is a synchronous, single-threaded object.  Each public       *)
(* operation is modelled as a call action that loads the operation's       *)
(* sequence of transport steps into `todo`, followed by one step action    *)
(* per transport call (write_command, write_data, read_data), raw channel  *)
(* exchange (spi_send), chip-select write, tracked-state assignment and    *)
(* return.  A transport call that finds the ready pin low returns          *)
(* WouldBlock and the enclosing block! retries it, so the step is taken    *)
(* again.  The environment is the ready pin, the byte channel (which may   *)
(* fail on any exchange) and the chip behind the channel.                  *)
(***************************************************************************)
EXTENDS Integers, Sequences, FiniteSets, TLC

(***************************************************************************)
(* Bounds of the model.                                                    *)
(***************************************************************************)
\* Busy polls of a trigger register that are recorded in `log`; later polls
\* still happen but are no longer recorded.
MaxPolls == 1
\* Largest pixel count passed to push_pixels.
MaxPixels == 2
\* Longest string passed to write_str.
MaxStrLen == 2
\* Largest width and height of the area passed to fill_contiguous.
MaxW == 3
MaxH == 2
\* Largest number of pixels handed to draw_iter.
MaxIter == 2

(***************************************************************************)
(* Program constants.                                                      *)
(***************************************************************************)
\* enum Command
DataWrite == 0
DataRead == 64
CmdWrite == 128
CmdRead == 192
\* enum Register (only the registers the modelled operations use)
Mrwc == 2
Pcsr == 4
Sysr == 16
Hdwr == 20
Hndftr == 21
Hndr == 22
Hstr == 23
Hpwr == 24
Vdhr0 == 25
Vdhr1 == 26
Vndr0 == 27
Vndr1 == 28
Vstr0 == 29
Vstr1 == 30
Vpwr == 31
Hsaw0 == 48
Hsaw1 == 49
Vsaw0 == 50
Vsaw1 == 51
Heaw0 == 52
Heaw1 == 53
Veaw0 == 54
Veaw1 == 55
Mclr == 142
Dcr == 144
DrawEllipseCR == 160
Mwcr0 == 64
CurH0 == 70
CurH1 == 71
CurV0 == 72
CurV1 == 73
Tpxh == 114
Tpyh == 115
Tpxyl == 116
Intc2 == 241
TextX0 == 42
TextX1 == 43
TextY0 == 44
TextY1 == 45
TextBg0 == 96
TextBg1 == 97
TextBg2 == 98
Color0 == 99
Color1 == 100
Color2 == 101
FontOptions == 34
ShapeStartX0 == 145
ShapeStartX1 == 146
ShapeStartY0 == 147
ShapeStartY1 == 148
ShapeEndX0 == 149
ShapeEndX1 == 150
ShapeEndY0 == 151
ShapeEndY1 == 152
CircleX0 == 153
CircleX1 == 154
CircleY0 == 155
CircleY1 == 156
CircleR == 157
TriangleP2X0 == 169
TriangleP2X1 == 170
TriangleP2Y0 == 171
TriangleP2Y1 == 172
EllipseLongA0 == 161
EllipseLongA1 == 162
EllipseShortB0 == 163
EllipseShortB1 == 164
EllipseCenterX0 == 165
EllipseCenterX1 == 166
EllipseCenterY0 == 167
EllipseCenterY1 == 168
\* the two registers text_mode addresses by number
FontControl0 == 33
SerialFontRom == 47
\* mod cmds
Sysr_BBP_16 == 12
Pcsr_Pdatl == 128
Pcsr_Clk_2 == 1
Pcsr_Clk_4 == 2
Hndftr_High == 0
Hpwr_Low == 0
Vpwr_Low == 0
Mclr_Start == 128
Dcr_LINESQUTRI_START == 128
Dcr_FILL == 32
Dcr_CIRCLE_START == 64
DrawEllipseCR_DRAWSTART == 128
DrawEllipseCR_FILL == 64
DrawEllipseCR_ELLIPSE_CURVE_SEL == 16
DrawEllipseCR_EllipseCurvePart == 3
Mwcr0_TxtMode == 128
Intc2_TP == 4

(***************************************************************************)
(* Fixed-width integer arithmetic.                                         *)
(***************************************************************************)
U8(x) == x % 256
U16(x) == x % 65536

RECURSIVE BitAndN(_, _, _)
BitAndN(a, b, n) ==
    IF n = 0 \/ a = 0 \/ b = 0 THEN 0
    ELSE (a % 2) * (b % 2) + 2 * BitAndN(a \div 2, b \div 2, n - 1)

\* a & b, a | b and !a on values of at most 16 bits
And(a, b) == BitAndN(a, b, 16)
Or(a, b) == a + b - And(a, b)
Not8(a) == 255 - a
Shr(a, n) == a \div (2 ^ n)
Shl16(a, n) == U16(a * (2 ^ n))

\* `x as u8` and `(x >> 8) as u8` of an i16 (two's complement)
LoByte(x) == U8(U16(x))
HiByte(x) == Shr(U16(x), 8)
\* `v as i16` of a u16
AsI16(v) == IF v >= 32768 THEN v - 65536 ELSE v

(***************************************************************************)
(* State.                                                                  *)
(***************************************************************************)
VARIABLES
    dims,           \* RA8875.dims, fixed by new()
    mode,           \* RA8875.mode: "Text" or "Graphics"
    text_settings,  \* RA8875.text_settings
    gfx_settings,   \* RA8875.gfx_settings
    cs,             \* level of the chip-select output pin (1 = high)
    ready,          \* level of the ready input pin (TRUE = high)
    faulty,         \* whether the byte channel may report errors
    chip,           \* the chip behind the channel: [op, addr, regs]
    st,             \* "idle": no call in progress; "run"; "panic"
    op,             \* the operation called last: [name, args]
    todo,           \* the steps the running operation has still to take
    reads,          \* the bytes the running operation has read so far
    npolls,         \* busy polls the running operation has made (saturating)
    result,         \* how the last operation ended
    retval,         \* the value the last operation returned
    txres,          \* what the last transport call returned
    rx,             \* the byte the last spi_read received
    spi_err,        \* the channel reported an error to the last operation
    log,            \* pin and channel events of the last operation
    pre             \* driver state when the last operation was called

vars == <<dims, mode, text_settings, gfx_settings, cs, ready, faulty, chip, st, op,
          todo, reads, npolls, result, retval, txres, rx, spi_err, log, pre>>

\* what no step of an operation changes
fixed == <<dims, faulty>>
driver == <<fixed, mode, text_settings, gfx_settings>>

(***************************************************************************)
(* The chip.  It decodes the first byte after a falling edge of chip       *)
(* select as the cycle's opcode and treats every further byte of the same  *)
(* cycle as payload of that opcode; a rising edge ends the cycle.  Only    *)
(* the registers the driver reads back are kept; every other address is    *)
(* write-only for the driver and is folded into OtherReg.                  *)
(***************************************************************************)
TrackedRegs == {FontControl0, FontOptions, Mwcr0, Dcr, DrawEllipseCR,
                Tpxh, Tpyh, Tpxyl, Intc2}
OtherReg == 0

ChipAddr(b) == IF b \in TrackedRegs THEN b ELSE OtherReg

ChipOpcode(b) ==
    CASE b \div 64 = 0 -> "DataWrite"
      [] b \div 64 = 1 -> "DataRead"
      [] b \div 64 = 2 -> "CmdWrite"
      [] OTHER -> "CmdRead"

\* A data write to the current register.  INTC2 is write-one-to-clear.
ChipWrite(c, b) ==
    IF c.addr \notin TrackedRegs THEN c
    ELSE IF c.addr = Intc2
         THEN [c EXCEPT !.regs[Intc2] = And(@, Not8(b))]
         ELSE [c EXCEPT !.regs[c.addr] = b]

ChipStep(c, e) ==
    CASE e[1] = "cs" /\ e[2] = 0 ->
            IF c.op = "idle" THEN [c EXCEPT !.op = "fresh"] ELSE c
      [] e[1] = "cs" /\ e[2] = 1 -> [c EXCEPT !.op = "idle"]
      [] e[1] = "tx" ->
            CASE c.op = "fresh" -> [c EXCEPT !.op = ChipOpcode(e[2])]
              [] c.op = "CmdWrite" -> [c EXCEPT !.addr = ChipAddr(e[2])]
              [] c.op = "DataWrite" -> ChipWrite(c, e[2])
              [] OTHER -> c
      [] OTHER -> c

RECURSIVE ChipRun(_, _)
ChipRun(c, evs) ==
    IF evs = <<>> THEN c ELSE ChipRun(ChipStep(c, Head(evs)), Tail(evs))

\* The byte the chip shifts out during the next exchange.
ChipOut(c) ==
    IF c.op = "DataRead" /\ c.addr \in TrackedRegs THEN c.regs[c.addr] ELSE 0

(***************************************************************************)
(* Transport: spi_send, spi_read and the four ready-gated transactions.    *)
(***************************************************************************)
\* Outcome of one transaction's two exchanges: all fine, or the send or the
\* read of the first or of the second exchange reports a channel error.
SpiOutcomes ==
    IF faulty THEN {"ok", "e1send", "e1read", "e2send", "e2read"} ELSE {"ok"}
\* Outcome of one spi_send.
SendOutcomes == IF faulty THEN {"ok", "esend", "eread"} ELSE {"ok"}

Logged(evs) == IF npolls >= MaxPolls THEN log ELSE log \o evs

\* The ready check, cs.set_low(), the opcode exchange, the payload exchange
\* and cs.set_high() of one transaction, as far as outcome o lets it get.
TxEvents(opcode, payload, isRead, o) ==
    LET start == << <<"rdy", 1>>, <<"cs", 0>> >>
        b1 == << <<"tx", opcode>> >>
        b2 == << <<"tx", IF isRead THEN 0 ELSE payload>> >>
        got == ChipOut(ChipRun(chip, start \o b1))
    IN CASE o = "e1send" -> start
         [] o = "e1read" -> start \o b1
         [] o = "e2send" -> start \o b1
         [] o = "e2read" -> start \o b1 \o b2
         [] OTHER -> start \o b1 \o b2
                     \o (IF isRead THEN << <<"rx", got>> >> ELSE <<>>)
                     \o << <<"cs", 1>> >>

\* the transaction with cs.set_low() moved in front of the ready check
transaction_cs_first(opcode, payload, isRead) ==
    IF ~ready
    THEN /\ txres' = "WouldBlock"
         /\ cs' = 0
         /\ chip' = ChipRun(chip, << <<"cs", 0>> >>)
         /\ UNCHANGED <<log, rx, spi_err>>
    ELSE \E o \in SpiOutcomes :
            LET evs == TxEvents(opcode, payload, isRead, o) IN
            /\ txres' = IF o = "ok" THEN "Ok" ELSE "Panic"
            /\ spi_err' = (spi_err \/ o # "ok")
            /\ cs' = IF o = "ok" THEN 1 ELSE 0
            /\ chip' = ChipRun(chip, evs)
            /\ log' = Logged(evs)
            /\ rx' = IF isRead /\ o = "ok"
                     THEN ChipOut(ChipRun(chip, SubSeq(evs, 1, 3)))
                     ELSE rx

transaction(opcode, payload, isRead) ==
    IF ~ready
    THEN /\ txres' = "WouldBlock"
         /\ UNCHANGED <<cs, chip, log, rx, spi_err>>
    ELSE \E o \in SpiOutcomes :
            LET evs == TxEvents(opcode, payload, isRead, o) IN
            /\ txres' = IF o = "ok" THEN "Ok" ELSE "Panic"
            /\ spi_err' = (spi_err \/ o # "ok")
            /\ cs' = IF o = "ok" THEN 1 ELSE 0
            /\ chip' = ChipRun(chip, evs)
            /\ log' = Logged(evs)
            /\ rx' = IF isRead /\ o = "ok"
                     THEN ChipOut(ChipRun(chip, SubSeq(evs, 1, 3)))
                     ELSE rx

write_data(data) == transaction(DataWrite, data, FALSE)

read_data == transaction(DataRead, 0, TRUE)

write_command(command) == transaction(CmdWrite, command, FALSE)

read_status == transaction(CmdRead, 0, TRUE)

(***************************************************************************)
(* Steps of an operation.                                                  *)
(***************************************************************************)
\* one step: its kind k and two operands; the fields are written in the order
\* TLC keeps them in, so that no worker ever reorders a record in place
I(k, a, b) == [a |-> a, b |-> b, k |-> k]

\* block!(write_command(r))?; block!(write_data(v))?
write_register(register, data) == <<I("wcmd", register, 0), I("wdata", data, 0)>>
\* read_register with the data read in front of the command write
read_register_data_first(register) == <<I("rdata", 0, 0), I("wcmd", register, 0)>>

\* block!(write_command(r))?; block!(read_data())
read_register(register) == <<I("wcmd", register, 0), I("rdata", 0, 0)>>
\* a single read of the trigger register in place of the loop
PollUntilClear_once(register, mask) ==
    <<I("wcmd", register, 0), I("rdata", 0, 0)>>

\* while (self.read_register(r)? & mask) != 0x00 {}
PollUntilClear(register, mask) ==
    <<I("wcmd", register, 0), I("rpoll", mask, register)>>
\* block!(self.write_data((tmp & mask) | bits))? on the byte read last
DataTmp(mask, bits) == <<I("wdataTmp", mask, bits)>>
Ret(res, kind) == <<I("ret", res, kind)>>

Running(kinds) == st = "run" /\ todo # <<>> /\ Head(todo).k \in kinds

Panicked ==
    /\ st' = "panic"
    /\ result' = "Panic"
    /\ todo' = <<>>

\* a block! that hands WouldBlock to the caller as an error
Block_no_retry(next, newReads, newPolls) ==
    /\ UNCHANGED <<driver, op, retval, pre, ready>>
    /\ CASE txres' = "WouldBlock" ->
                /\ st' = "idle"
                /\ result' = "Err"
                /\ todo' = <<>>
                /\ UNCHANGED <<reads, npolls>>
         [] txres' = "Panic" ->
                Panicked /\ UNCHANGED <<reads, npolls>>
         [] OTHER ->
                /\ todo' = next
                /\ reads' = newReads
                /\ npolls' = newPolls
                /\ UNCHANGED <<st, result>>

\* What block! does with the value the transport call returned.
Block(next, newReads, newPolls) ==
    /\ UNCHANGED <<driver, op, retval, pre, ready>>
    /\ CASE txres' = "WouldBlock" ->
                UNCHANGED <<st, result, todo, reads, npolls>>
         [] txres' = "Panic" ->
                Panicked /\ UNCHANGED <<reads, npolls>>
         [] OTHER ->
                /\ todo' = next
                /\ reads' = newReads
                /\ npolls' = newPolls
                /\ UNCHANGED <<st, result>>

write_command_step ==
    /\ Running({"wcmd"})
    /\ write_command(Head(todo).a)
    /\ Block(Tail(todo), reads, npolls)

write_data_step ==
    /\ Running({"wdata", "wdataTmp"})
    /\ LET i == Head(todo)
           tmp == reads[Len(reads)]
           data == IF i.k = "wdataTmp" THEN Or(And(tmp, i.a), i.b) ELSE i.a
       IN write_data(data)
    /\ Block(Tail(todo), reads, npolls)

read_data_step ==
    /\ Running({"rdata", "rpoll"})
    /\ read_data
    /\ LET i == Head(todo) IN
       IF i.k = "rpoll" /\ And(rx', i.a) # 0
       THEN Block(PollUntilClear(i.b, i.a) \o Tail(todo), reads,
                  IF npolls < MaxPolls THEN npolls + 1 ELSE npolls)
       ELSE Block(Tail(todo),
                  IF i.k = "rdata" THEN Append(reads, rx') ELSE reads, npolls)

\* self.spi_send(b)?  outside a transaction: no ready check, and a channel
\* error is returned to the caller.
spi_send_step ==
    /\ Running({"send"})
    /\ \E o \in SendOutcomes :
          LET evs == IF o = "esend" THEN <<>> ELSE << <<"tx", Head(todo).a>> >> IN
          /\ log' = log \o evs
          /\ chip' = ChipRun(chip, evs)
          /\ spi_err' = (spi_err \/ o # "ok")
          /\ IF o = "ok"
             THEN /\ todo' = Tail(todo)
                  /\ UNCHANGED <<st, result>>
             ELSE /\ todo' = <<>>
                  /\ st' = "idle"
                  /\ result' = "Err"
    /\ UNCHANGED <<driver, cs, ready, op, reads, npolls, retval, txres, rx, pre>>

\* self.cs.set_low() / self.cs.set_high() outside a transaction
cs_step ==
    /\ Running({"cs"})
    /\ LET ev == << <<"cs", Head(todo).a>> >> IN
       /\ cs' = Head(todo).a
       /\ log' = log \o ev
       /\ chip' = ChipRun(chip, ev)
    /\ todo' = Tail(todo)
    /\ UNCHANGED <<driver, ready, st, op, reads, npolls, result, retval,
                   txres, rx, spi_err, pre>>

\* an assignment to a tracked field of the driver
assign_step ==
    /\ Running({"assign"})
    /\ LET i == Head(todo) IN
       /\ mode' = IF i.a = "mode" THEN i.b ELSE mode
       /\ text_settings' =
            CASE i.a = "text.cursor" -> [text_settings EXCEPT !.cursor = i.b]
              [] i.a = "text.text_scale" -> [text_settings EXCEPT !.text_scale = i.b]
              [] i.a = "text.colors" ->
                    [text_settings EXCEPT !.fg_color = i.b[1], !.bg_color = i.b[2]]
              [] OTHER -> text_settings
       /\ gfx_settings' =
            IF i.a = "gfx.cursor" THEN [gfx_settings EXCEPT !.cursor = i.b]
            ELSE gfx_settings
    /\ todo' = Tail(todo)
    /\ UNCHANGED <<fixed, cs, ready, chip, st, op, reads, npolls, result,
                   retval, txres, rx, spi_err, log, pre>>

\* panic!(..)
panic_step ==
    /\ Running({"panic"})
    /\ Panicked
    /\ UNCHANGED <<driver, cs, ready, chip, op, reads, npolls, retval,
                   txres, rx, spi_err, log, pre>>


\* the one transport call of a direct call of a transport function: its
\* result, WouldBlock included, goes to the caller
transport_call_step ==
    /\ Running({"nb"})
    /\ LET i == Head(todo) IN
       CASE i.a = "write_data" -> write_data(i.b)
         [] i.a = "read_data" -> read_data
         [] i.a = "write_command" -> write_command(i.b)
         [] OTHER -> read_status
    /\ todo' = <<>>
    /\ st' = IF txres' = "Panic" THEN "panic" ELSE "idle"
    /\ result' = txres'
    /\ retval' = IF txres' = "Ok" /\ Head(todo).a \in {"read_data", "read_status"}
                 THEN <<rx'>> ELSE <<>>
    /\ UNCHANGED <<driver, ready, op, reads, npolls, pre>>

\* get_touch taking the low bits of y from bits 1..0 of the combined byte
TouchCoord_same_bits(tx_high, ty_high, t_xy_lower_bits) ==
    LET tx == Or(Shl16(tx_high, 2), And(t_xy_lower_bits, 3))
        ty == Or(Shl16(ty_high, 2), And(t_xy_lower_bits, 3))
    IN <<AsI16(tx), AsI16(ty)>>

\* x = (XH << 2) | (L & 0x03), y = (YH << 2) | ((L >> 2) & 0x03), as i16
TouchCoord(tx_high, ty_high, t_xy_lower_bits) ==
    LET tx == Or(Shl16(tx_high, 2), And(t_xy_lower_bits, 3))
        ty == Or(Shl16(ty_high, 2), And(Shr(t_xy_lower_bits, 2), 3))
    IN <<AsI16(tx), AsI16(ty)>>

\* Ok(..) / Err(fmt::Error) at the end of an operation
return_step ==
    /\ Running({"ret"})
    /\ LET i == Head(todo) IN
       /\ result' = i.a
       /\ retval' = CASE i.b = "touch" -> TouchCoord(reads[1], reads[2], reads[3])
                      [] i.b = "touched" -> <<And(reads[1], Intc2_TP) # 0>>
                      [] OTHER -> <<>>
    /\ st' = "idle"
    /\ todo' = <<>>
    /\ UNCHANGED <<driver, cs, ready, chip, op, reads, npolls, txres, rx,
                   spi_err, log, pre>>

(***************************************************************************)
(* The environment.                                                        *)
(***************************************************************************)
ReadyChange ==
    /\ ready' = ~ready
    /\ UNCHANGED <<driver, cs, chip, st, op, todo, reads, npolls, result,
                   retval, txres, rx, spi_err, log, pre>>

\* The drawing engine finishes: the chip clears the start bits.
ChipDone ==
    /\ \/ And(chip.regs[Dcr], 192) # 0
       \/ And(chip.regs[DrawEllipseCR], 128) # 0
    /\ chip' = [chip EXCEPT !.regs[Dcr] = And(@, 63),
                            !.regs[DrawEllipseCR] = And(@, 127)]
    /\ UNCHANGED <<driver, cs, ready, st, op, todo, reads, npolls, result,
                   retval, txres, rx, spi_err, log, pre>>

\* register values a touch can latch
TouchXH == {18, 255}
TouchYH == {52, 0}
TouchL == {9, 246}

TouchEvent ==
    /\ And(chip.regs[Intc2], Intc2_TP) = 0
    /\ \E xh \in TouchXH, yh \in TouchYH, l \in TouchL :
          chip' = [chip EXCEPT !.regs[Tpxh] = xh, !.regs[Tpyh] = yh,
                               !.regs[Tpxyl] = l,
                               !.regs[Intc2] = Or(@, Intc2_TP)]
    /\ UNCHANGED <<driver, cs, ready, st, op, todo, reads, npolls, result,
                   retval, txres, rx, spi_err, log, pre>>

(***************************************************************************)
(* Operations.  Each *_prog is the sequence of steps of the function of    *)
(* the same name, for the tracked mode at the call.                        *)
(***************************************************************************)
Snapshot == [mode |-> mode, text_settings |-> text_settings,
             gfx_settings |-> gfx_settings, cs |-> cs]

Call(name, args, prog) ==
    /\ st = "idle"
    /\ st' = "run"
    /\ op' = [name |-> name, args |-> args]
    /\ todo' = prog
    /\ reads' = <<>>
    /\ npolls' = 0
    /\ result' = "none"
    /\ retval' = <<>>
    /\ txres' = "none"
    /\ rx' = 0
    /\ spi_err' = FALSE
    /\ log' = <<>>
    /\ pre' = Snapshot
    /\ UNCHANGED <<driver, cs, ready, chip>>

Supported == {<<480, 272>>, <<800, 480>>}

\* the match of init()
Timing(d) ==
    IF d = <<480, 272>>
    THEN [pixclk |-> Or(Pcsr_Pdatl, Pcsr_Clk_4), hsync_nondisp |-> 10,
          hsync_start |-> 8, hsync_pw |-> 48, hsync_finetune |-> 0,
          vsync_nondisp |-> 3, vsync_start |-> 8, vsync_pw |-> 10]
    ELSE [pixclk |-> Or(Pcsr_Pdatl, Pcsr_Clk_2), hsync_nondisp |-> 26,
          hsync_start |-> 32, hsync_pw |-> 96, hsync_finetune |-> 0,
          vsync_nondisp |-> 32, vsync_start |-> 23, vsync_pw |-> 2]

\* the register values init() computes from the Timing record (u8 and u16
\* arithmetic, `as u8` truncation)
\* HNDR with the division done before the subtractions
HndrValue_div_first(t) ==
    U8(U8(U8(t.hsync_nondisp \div 8) - t.hsync_finetune) - 2)

HndrValue(t) == U8(U8(U8(t.hsync_nondisp - t.hsync_finetune) - 2) \div 8)
HstrValue(t) == U8(t.hsync_start \div 8 - 1)
HpwrValue(t) == U8(U8(Hpwr_Low + t.hsync_pw \div 8) - 1)
Vndr0Value(t) == U8(U16(t.vsync_nondisp - 1))
Vstr0Value(t) == U8(U16(t.vsync_start - 1))
VpwrValue(t) == U8(U8(Vpwr_Low + t.vsync_pw) - 1)

init_timing(width, height, t) ==
    write_register(Pcsr, t.pixclk)
    \o write_register(Hdwr, U8(width \div 8 - 1))
    \o write_register(Hndftr, U8(Hndftr_High + t.hsync_finetune))
    \o write_register(Hndr, HndrValue(t))
    \o write_register(Hstr, HstrValue(t))
    \o write_register(Hpwr, HpwrValue(t))
    \o write_register(Vdhr0, U8(And(height - 1, 255)))
    \o write_register(Vdhr1, U8(Shr(height - 1, 8)))
    \o write_register(Vndr0, Vndr0Value(t))
    \o write_register(Vndr1, U8(Shr(t.vsync_nondisp, 8)))
    \o write_register(Vstr0, Vstr0Value(t))
    \o write_register(Vstr1, U8(Shr(t.vsync_start, 8)))
    \o write_register(Vpwr, VpwrValue(t))
    \o write_register(Hsaw0, 0)
    \o write_register(Hsaw1, 0)
    \o write_register(Heaw0, U8(And(width - 1, 255)))
    \o write_register(Heaw1, U8(Shr(width - 1, 8)))
    \o write_register(Vsaw0, 0)
    \o write_register(Vsaw1, 0)
    \o write_register(Veaw0, U8(And(height - 1, 255)))
    \o write_register(Veaw1, U8(Shr(height - 1, 8)))
    \o write_register(Mclr, Mclr_Start)

init_prog ==
    write_register(Sysr, Sysr_BBP_16)
    \o (IF dims \in Supported
        THEN init_timing(dims[1], dims[2], Timing(dims)) \o Ret("Ok", "unit")
        ELSE <<I("panic", 0, 0)>>)

\* text_mode without the match on the tracked mode
text_mode_prog_always ==
    read_register(Mwcr0)
    \o DataTmp(255, Mwcr0_TxtMode)
    \o <<I("wcmd", FontControl0, 0), I("rdata", 0, 0)>>
    \o DataTmp(Or(2 ^ 7, 2 ^ 5), 0)
    \o <<I("wcmd", SerialFontRom, 0), I("wdata", 0, 0)>>
    \o <<I("assign", "mode", "Text")>>
    \o Ret("Ok", "unit")

text_mode_prog ==
    IF mode = "Text" THEN Ret("Ok", "unit")
    ELSE read_register(Mwcr0)
         \o DataTmp(255, Mwcr0_TxtMode)
         \o <<I("wcmd", FontControl0, 0), I("rdata", 0, 0)>>
         \o DataTmp(Or(2 ^ 7, 2 ^ 5), 0)
         \o <<I("wcmd", SerialFontRom, 0), I("wdata", 0, 0)>>
         \o <<I("assign", "mode", "Text")>>
         \o Ret("Ok", "unit")

\* graphics_mode writing 0x00 to MWCR0 instead of the byte it read, masked
graphics_mode_prog_write_zero ==
    IF mode = "Graphics" THEN Ret("Ok", "unit")
    ELSE read_register(Mwcr0)
         \o <<I("wdata", 0, 0)>>
         \o <<I("assign", "mode", "Graphics")>>
         \o Ret("Ok", "unit")

graphics_mode_prog ==
    IF mode = "Graphics" THEN Ret("Ok", "unit")
    ELSE read_register(Mwcr0)
         \o DataTmp(Not8(Mwcr0_TxtMode), 0)
         \o <<I("assign", "mode", "Graphics")>>
         \o Ret("Ok", "unit")

set_text_scale_prog(scale) ==
    LET bit_pattern == CASE scale = 0 -> 0 [] scale = 1 -> 5
                         [] scale = 2 -> 10 [] OTHER -> 15
    IN read_register(FontOptions)
       \o DataTmp(Not8(15), bit_pattern)
       \o <<I("assign", "text.text_scale", scale)>>
       \o Ret("Ok", "unit")


\* set_cursor assigning the tracked cursor before it writes the registers
set_cursor_steps_assign_first(new_position) ==
    LET x == new_position[1]
        y == new_position[2]
    IN IF mode = "Graphics"
       THEN <<I("assign", "gfx.cursor", new_position)>>
            \o write_register(CurH0, LoByte(x))
            \o write_register(CurH1, HiByte(x))
            \o write_register(CurV0, LoByte(y))
            \o write_register(CurV1, HiByte(y))
       ELSE <<I("assign", "text.cursor", new_position)>>
            \o write_register(TextX0, LoByte(x))
            \o write_register(TextX1, HiByte(x))
            \o write_register(TextY0, LoByte(y))
            \o write_register(TextY1, HiByte(y))

set_cursor_steps(new_position) ==
    LET x == new_position[1]
        y == new_position[2]
    IN IF mode = "Graphics"
       THEN write_register(CurH0, LoByte(x))
            \o write_register(CurH1, HiByte(x))
            \o write_register(CurV0, LoByte(y))
            \o write_register(CurV1, HiByte(y))
            \o <<I("assign", "gfx.cursor", new_position)>>
       ELSE write_register(TextX0, LoByte(x))
            \o write_register(TextX1, HiByte(x))
            \o write_register(TextY0, LoByte(y))
            \o write_register(TextY1, HiByte(y))
            \o <<I("assign", "text.cursor", new_position)>>

\* set_cursor that writes the graphics cursor registers in either mode
set_cursor_prog_no_dispatch(new_position) ==
    write_register(CurH0, LoByte(new_position[1]))
    \o write_register(CurH1, HiByte(new_position[1]))
    \o write_register(CurV0, LoByte(new_position[2]))
    \o write_register(CurV1, HiByte(new_position[2]))
    \o (IF mode = "Graphics"
        THEN <<I("assign", "gfx.cursor", new_position)>>
        ELSE <<I("assign", "text.cursor", new_position)>>)
    \o Ret("Ok", "unit")

set_cursor_prog(new_position) ==
    set_cursor_steps(new_position) \o Ret("Ok", "unit")

\* set_colors that writes the background registers in Graphics mode as well
set_colors_bg_in_graphics(fg_color, bg_color) ==
    LET fg == write_register(Color0, U8(Shr(And(fg_color, 63488), 11)))
              \o write_register(Color1, U8(Shr(And(fg_color, 2016), 5)))
              \o write_register(Color2, U8(And(fg_color, 31)))
        bg == IF bg_color # <<>>
              THEN write_register(TextBg0, U8(Shr(And(bg_color[1], 63488), 11)))
                   \o write_register(TextBg1, U8(Shr(And(bg_color[1], 2016), 5)))
                   \o write_register(TextBg2, U8(And(bg_color[1], 31)))
                   \o read_register(FontOptions)
                   \o DataTmp(Not8(2 ^ 6), 0)
              ELSE read_register(FontOptions)
                   \o DataTmp(255, 2 ^ 6)
    IN IF mode = "Graphics" THEN fg \o bg
       ELSE fg \o bg \o <<I("assign", "text.colors", <<fg_color, bg_color>>)>>

\* bg_color: <<>> is None, <<c>> is Some(c)
set_colors(fg_color, bg_color) ==
    LET fg == write_register(Color0, U8(Shr(And(fg_color, 63488), 11)))
              \o write_register(Color1, U8(Shr(And(fg_color, 2016), 5)))
              \o write_register(Color2, U8(And(fg_color, 31)))
    IN IF mode = "Graphics" THEN fg
       ELSE fg
            \o (IF bg_color # <<>>
                THEN write_register(TextBg0, U8(Shr(And(bg_color[1], 63488), 11)))
                     \o write_register(TextBg1, U8(Shr(And(bg_color[1], 2016), 5)))
                     \o write_register(TextBg2, U8(And(bg_color[1], 31)))
                     \o read_register(FontOptions)
                     \o DataTmp(Not8(2 ^ 6), 0)
                ELSE read_register(FontOptions)
                     \o DataTmp(255, 2 ^ 6))
            \o <<I("assign", "text.colors", <<fg_color, bg_color>>)>>

\* set_colors called on its own
set_colors_prog(fg_color, bg_color) ==
    set_colors(fg_color, bg_color) \o Ret("Ok", "unit")

\* push_pixels sending the low byte of the colour first
push_pixels_prog_lo_first(num_pixels, color) ==
    <<I("wcmd", Mrwc, 0), I("cs", 0, 0), I("send", DataWrite, 0)>>
    \o [k \in 1..(2 * num_pixels) |->
            IF k % 2 = 1 THEN I("send", U8(color), 0)
            ELSE I("send", U8(Shr(color, 8)), 0)]
    \o <<I("cs", 1, 0)>>
    \o Ret("Ok", "unit")

push_pixels_prog(num_pixels, color) ==
    <<I("wcmd", Mrwc, 0), I("cs", 0, 0), I("send", DataWrite, 0)>>
    \o [k \in 1..(2 * num_pixels) |->
            IF k % 2 = 1 THEN I("send", U8(Shr(color, 8)), 0)
            ELSE I("send", U8(color), 0)]
    \o <<I("cs", 1, 0)>>
    \o Ret("Ok", "unit")

\* the body of draw_point up to its Ok(())
draw_point_steps(coord, color) ==
    set_cursor_steps(coord)
    \o <<I("wcmd", Mrwc, 0), I("cs", 0, 0), I("send", DataWrite, 0),
         I("send", U8(Shr(color, 8)), 0), I("send", U8(color), 0),
         I("cs", 1, 0)>>

draw_point_prog(coord, color) ==
    draw_point_steps(coord, color) \o Ret("Ok", "unit")

\* bounding_box.contains(coord) for the rectangle at (0, 0) of size dims
Contains(coord) ==
    /\ coord[1] >= 0
    /\ coord[2] >= 0
    /\ coord[1] <= 0 + dims[1] - 1
    /\ coord[2] <= 0 + dims[2] - 1

\* the loop of draw_iter from the k-th pixel on
RECURSIVE draw_iter_loop(_, _)
draw_iter_loop(pixels, k) ==
    IF k > Len(pixels) THEN <<>>
    ELSE LET coord == pixels[k][1]
             color == pixels[k][2]
         IN (IF Contains(coord)
             THEN draw_point_steps(
                      <<AsI16(U16(coord[1])), AsI16(U16(coord[2]))>>, color)
             ELSE <<>>)
            \o draw_iter_loop(pixels, k + 1)

draw_iter_prog(pixels) == draw_iter_loop(pixels, 1) \o Ret("Ok", "unit")

\* draw_rect whose filled trigger byte lacks the DRAWSQUARE bit
draw_rect_prog_fill_trigger(top_left, bottom_right, color, fill) ==
    write_register(ShapeStartX0, LoByte(top_left[1]))
    \o write_register(ShapeStartX1, HiByte(top_left[1]))
    \o write_register(ShapeStartY0, LoByte(top_left[2]))
    \o write_register(ShapeStartY1, HiByte(top_left[2]))
    \o write_register(ShapeEndX0, LoByte(bottom_right[1]))
    \o write_register(ShapeEndX1, HiByte(bottom_right[1]))
    \o write_register(ShapeEndY0, LoByte(bottom_right[2]))
    \o write_register(ShapeEndY1, HiByte(bottom_right[2]))
    \o set_colors(color, <<>>)
    \o (IF fill THEN write_register(Dcr, 160) ELSE write_register(Dcr, 144))
    \o PollUntilClear(Dcr, 128)
    \o Ret("Ok", "unit")

draw_rect_prog(top_left, bottom_right, color, fill) ==
    write_register(ShapeStartX0, LoByte(top_left[1]))
    \o write_register(ShapeStartX1, HiByte(top_left[1]))
    \o write_register(ShapeStartY0, LoByte(top_left[2]))
    \o write_register(ShapeStartY1, HiByte(top_left[2]))
    \o write_register(ShapeEndX0, LoByte(bottom_right[1]))
    \o write_register(ShapeEndX1, HiByte(bottom_right[1]))
    \o write_register(ShapeEndY0, LoByte(bottom_right[2]))
    \o write_register(ShapeEndY1, HiByte(bottom_right[2]))
    \o set_colors(color, <<>>)
    \o (IF fill THEN write_register(Dcr, 176) ELSE write_register(Dcr, 144))
    \o PollUntilClear(Dcr, 128)
    \o Ret("Ok", "unit")

\* `width as i16`, `height as i16` of the u32 dimensions
fill_screen_prog(color) ==
    draw_rect_prog(<<0, 0>>, <<AsI16(U16(dims[1])), AsI16(U16(dims[2]))>>,
                   color, TRUE)

draw_line_prog(start, end, color) ==
    write_register(ShapeStartX0, LoByte(start[1]))
    \o write_register(ShapeStartX1, HiByte(start[1]))
    \o write_register(ShapeStartY0, LoByte(start[2]))
    \o write_register(ShapeStartY1, HiByte(start[2]))
    \o write_register(ShapeEndX0, LoByte(end[1]))
    \o write_register(ShapeEndX1, HiByte(end[1]))
    \o write_register(ShapeEndY0, LoByte(end[2]))
    \o write_register(ShapeEndY1, HiByte(end[2]))
    \o set_colors(color, <<>>)
    \o write_register(Dcr, 128)
    \o PollUntilClear(Dcr, 128)
    \o Ret("Ok", "unit")

draw_circle_prog(center, radius, color, fill) ==
    write_register(CircleX0, LoByte(center[1]))
    \o write_register(CircleX1, HiByte(center[1]))
    \o write_register(CircleY0, LoByte(center[2]))
    \o write_register(CircleY1, HiByte(center[2]))
    \o write_register(CircleR, LoByte(radius))
    \o set_colors(color, <<>>)
    \o (IF fill THEN write_register(Dcr, Or(Dcr_CIRCLE_START, Dcr_FILL))
        ELSE write_register(Dcr, Dcr_CIRCLE_START))
    \o PollUntilClear(Dcr, Dcr_CIRCLE_START)
    \o Ret("Ok", "unit")

draw_triangle_prog(p0, p1, p2, color, fill) ==
    write_register(ShapeStartX0, LoByte(p0[1]))
    \o write_register(ShapeStartX1, HiByte(p0[1]))
    \o write_register(ShapeStartY0, LoByte(p0[2]))
    \o write_register(ShapeStartY1, HiByte(p0[2]))
    \o write_register(ShapeEndX0, LoByte(p1[1]))
    \o write_register(ShapeEndX1, HiByte(p1[1]))
    \o write_register(ShapeEndY0, LoByte(p1[2]))
    \o write_register(ShapeEndY1, HiByte(p1[2]))
    \o write_register(TriangleP2X0, LoByte(p2[1]))
    \o write_register(TriangleP2X1, HiByte(p2[1]))
    \o write_register(TriangleP2Y0, LoByte(p2[2]))
    \o write_register(TriangleP2Y1, HiByte(p2[2]))
    \o set_colors(color, <<>>)
    \o (IF fill THEN write_register(Dcr, Or(Dcr_LINESQUTRI_START, Dcr_FILL))
        ELSE write_register(Dcr, Dcr_LINESQUTRI_START))
    \o PollUntilClear(Dcr, Dcr_LINESQUTRI_START)
    \o Ret("Ok", "unit")

\* the centre and axis writes draw_ellipse and draw_curve share
ellipse_geometry(center, long_axis, short_axis) ==
    write_register(EllipseCenterX0, LoByte(center[1]))
    \o write_register(EllipseCenterX1, HiByte(center[1]))
    \o write_register(EllipseCenterY0, LoByte(center[2]))
    \o write_register(EllipseCenterY1, HiByte(center[2]))
    \o write_register(EllipseLongA0, U8(long_axis))
    \o write_register(EllipseLongA1, U8(Shr(long_axis, 8)))
    \o write_register(EllipseShortB0, U8(short_axis))
    \o write_register(EllipseShortB1, U8(Shr(short_axis, 8)))

draw_ellipse_prog(center, long_axis, short_axis, color, fill) ==
    ellipse_geometry(center, long_axis, short_axis)
    \o set_colors(color, <<>>)
    \o (IF fill
        THEN write_register(DrawEllipseCR,
                            Or(DrawEllipseCR_DRAWSTART, DrawEllipseCR_FILL))
        ELSE write_register(DrawEllipseCR, DrawEllipseCR_DRAWSTART))
    \o PollUntilClear(DrawEllipseCR, DrawEllipseCR_DRAWSTART)
    \o Ret("Ok", "unit")

draw_curve_prog(center, long_axis, short_axis, curve_part, color, fill) ==
    ellipse_geometry(center, long_axis, short_axis)
    \o set_colors(color, <<>>)
    \o (IF fill
        THEN write_register(DrawEllipseCR,
                Or(Or(Or(DrawEllipseCR_DRAWSTART, DrawEllipseCR_FILL),
                      DrawEllipseCR_ELLIPSE_CURVE_SEL),
                   And(curve_part, DrawEllipseCR_EllipseCurvePart)))
        ELSE write_register(DrawEllipseCR,
                Or(Or(DrawEllipseCR_DRAWSTART, DrawEllipseCR_ELLIPSE_CURVE_SEL),
                   And(curve_part, DrawEllipseCR_EllipseCurvePart))))
    \o PollUntilClear(DrawEllipseCR, DrawEllipseCR_DRAWSTART)
    \o Ret("Ok", "unit")

\* touched that clears the event it finds
touched_prog_clears ==
    read_register(Intc2) \o write_register(Intc2, Intc2_TP) \o Ret("Ok", "touched")

touched_prog == read_register(Intc2) \o Ret("Ok", "touched")

get_touch_prog ==
    read_register(Tpxh)
    \o read_register(Tpyh)
    \o read_register(Tpxyl)
    \o write_register(Intc2, Intc2_TP)
    \o Ret("Ok", "touch")

\* write_str that checks the mode only after the bytes are out
write_str_prog_late_check(s) ==
    <<I("wcmd", Mrwc, 0)>>
    \o [k \in 1..Len(s) |-> I("wdata", s[k], 0)]
    \o (IF mode = "Text" THEN Ret("Ok", "unit") ELSE Ret("FmtErr", "unit"))

write_str_prog(s) ==
    IF mode = "Text"
    THEN <<I("wcmd", Mrwc, 0)>>
         \o [k \in 1..Len(s) |-> I("wdata", s[k], 0)]
         \o Ret("Ok", "unit")
    ELSE Ret("FmtErr", "unit")

\* the points of the rectangle, column by column
AreaPoints_column_major(area) ==
    [k \in 1..(area.w * area.h) |->
        <<area.x + ((k - 1) \div area.h), area.y + ((k - 1) % area.h)>>]

\* area.points(): the points of the rectangle, row by row
AreaPoints(area) ==
    [k \in 1..(area.w * area.h) |->
        <<area.x + ((k - 1) % area.w), area.y + ((k - 1) \div area.w)>>]

\* to_coord: `p.x as i16`, `p.y as i16`
to_coord(p) == <<AsI16(U16(p[1])), AsI16(U16(p[2]))>>

Min(a, b) == IF a < b THEN a ELSE b

\* fill_contiguous that sets the cursor for every pixel
RECURSIVE fill_contiguous_loop_per_pixel(_, _, _, _)
fill_contiguous_loop_per_pixel(points, colors, k, last_y) ==
    IF k > Min(Len(points), Len(colors)) THEN <<>>
    ELSE LET point == points[k]
             color == colors[k]
         IN <<I("cs", 1, 0)>>
            \o set_cursor_steps(to_coord(point))
            \o <<I("wcmd", Mrwc, 0), I("cs", 0, 0), I("send", DataWrite, 0)>>
            \o <<I("send", U8(Shr(color, 8)), 0), I("send", U8(color), 0)>>
            \o fill_contiguous_loop_per_pixel(points, colors, k + 1, <<point[2]>>)

\* the loop body of fill_contiguous for pair k of area.points().zip(colors);
\* last_y is <<>> for None and <<y>> for Some(y)
RECURSIVE fill_contiguous_loop(_, _, _, _)
fill_contiguous_loop(points, colors, k, last_y) ==
    IF k > Min(Len(points), Len(colors)) THEN <<>>
    ELSE LET point == points[k]
             color == colors[k]
         IN (IF <<point[2]>> # last_y
             THEN <<I("cs", 1, 0)>>
                  \o set_cursor_steps(to_coord(point))
                  \o <<I("wcmd", Mrwc, 0), I("cs", 0, 0),
                       I("send", DataWrite, 0)>>
             ELSE <<>>)
            \o <<I("send", U8(Shr(color, 8)), 0), I("send", U8(color), 0)>>
            \o fill_contiguous_loop(points, colors, k + 1, <<point[2]>>)

fill_contiguous_prog(area, colors) ==
    fill_contiguous_loop(AreaPoints(area), colors, 1, <<>>) \o Ret("Ok", "unit")

transport_prog(fn, payload) == <<I("nb", fn, payload)>>


(***************************************************************************)
(* Inputs of the operations.                                               *)
(***************************************************************************)
Dims == Supported \cup {<<320, 240>>}
Colors == {63519}
Coords == {<<10, 10>>, <<300, 50>>}
Scales == {0, 2}
Chars == {72}
Strs == UNION {[1..n -> Chars] : n \in 0..MaxStrLen}
Areas == {[x |-> 1, y |-> 1, w |-> w, h |-> h] : w \in 1..MaxW, h \in 1..MaxH}
\* the colour sequence of length n handed to fill_contiguous
ColorSeq(n) == [k \in 1..n |-> IF k % 2 = 1 THEN 63519 ELSE 2016]
ColorLens(area) == {area.w * area.h - 1, area.w * area.h, area.w * area.h + 1}
\* the pixels handed to draw_iter: coordinates inside the 480x272 panel, on
\* its last column and row, and just outside it on each side
PixelCoords == {<<10, 10>>, <<479, 271>>, <<480, 10>>, <<10, 272>>, <<-1, 5>>}
PixelSeqs ==
    UNION {{[k \in 1..n |-> <<c[k], ColorSeq(n)[k]>>] : c \in [1..n -> PixelCoords]}
           : n \in 0..MaxIter}
TransportFns == {"write_data", "read_data", "write_command", "read_status"}
Payloads == {Mrwc, 165}
\* arguments of set_colors: foreground colours, and None or Some(colour)
FgColors == {63519, 43981}
BgColors == {<<>>, <<2016>>, <<21930>>}
\* radius arguments of draw_circle: one that fits a byte and one that does not
Radii == {20, 300}
\* curve_part arguments: a quadrant, and a byte with bits outside the field
CurveParts == {2, 7}

\* register banks the chip may hold when the driver is constructed: the
\* power-on defaults, and a bank left behind by an earlier configuration.
\* The text-mode bit of MWCR0 is clear in both.
PowerOnRegs == [r \in TrackedRegs |-> 0]
UsedRegs == [r \in TrackedRegs |->
                CASE r = Mwcr0 -> 6
                  [] r = FontControl0 -> 163
                  [] r = FontOptions -> 74
                  [] OTHER -> 0]

\* RA8875::new, over a channel that may (faults) or may not report errors
New(faults) ==
    /\ dims \in Dims
    /\ faulty = faults
    /\ mode = "Graphics"
    /\ text_settings = [cursor |-> <<0, 0>>, text_scale |-> 1, fg_color |-> 0,
                        bg_color |-> <<>>, transparency |-> FALSE]
    /\ gfx_settings = [cursor |-> <<0, 0>>, color |-> 0]
    /\ cs = 1
    /\ ready \in BOOLEAN
    /\ chip \in {[op |-> "idle", addr |-> OtherReg, regs |-> b] :
                    b \in {PowerOnRegs, UsedRegs}}
    /\ st = "idle"
    /\ op = [name |-> "new", args |-> <<>>]
    /\ todo = <<>>
    /\ reads = <<>>
    /\ npolls = 0
    /\ result = "none"
    /\ retval = <<>>
    /\ txres = "none"
    /\ rx = 0
    /\ spi_err = FALSE
    /\ log = <<>>
    /\ pre = Snapshot

Init == New(TRUE)

init == Call("init", <<>>, init_prog)

text_mode == Call("text_mode", <<>>, text_mode_prog)

graphics_mode == Call("graphics_mode", <<>>, graphics_mode_prog)

set_text_scale == \E scale \in Scales :
    Call("set_text_scale", <<scale>>, set_text_scale_prog(scale))

set_cursor == \E c \in Coords :
    Call("set_cursor", <<c>>, set_cursor_prog(c))

push_pixels == \E n \in 0..MaxPixels, color \in Colors :
    Call("push_pixels", <<n, color>>, push_pixels_prog(n, color))

draw_point == \E c \in Coords, color \in Colors :
    Call("draw_point", <<c, color>>, draw_point_prog(c, color))

draw_rect == \E p1 \in {<<50, 50>>, <<300, 200>>}, color \in Colors, fill \in BOOLEAN :
    Call("draw_rect", <<<<10, 10>>, p1, color, fill>>,
         draw_rect_prog(<<10, 10>>, p1, color, fill))

fill_screen == \E color \in Colors :
    Call("fill_screen", <<color>>, fill_screen_prog(color))

set_colors_call == \E fg \in FgColors, bg \in BgColors :
    Call("set_colors", <<fg, bg>>, set_colors_prog(fg, bg))

draw_line == \E color \in Colors :
    Call("draw_line", <<<<10, 10>>, <<300, 50>>, color>>,
         draw_line_prog(<<10, 10>>, <<300, 50>>, color))

draw_circle == \E radius \in Radii, color \in Colors, fill \in BOOLEAN :
    Call("draw_circle", <<<<300, 50>>, radius, color, fill>>,
         draw_circle_prog(<<300, 50>>, radius, color, fill))

draw_triangle == \E color \in Colors, fill \in BOOLEAN :
    Call("draw_triangle", <<<<10, 10>>, <<300, 50>>, <<50, 200>>, color, fill>>,
         draw_triangle_prog(<<10, 10>>, <<300, 50>>, <<50, 200>>, color, fill))

draw_ellipse == \E color \in Colors, fill \in BOOLEAN :
    Call("draw_ellipse", <<<<300, 50>>, 260, 20, color, fill>>,
         draw_ellipse_prog(<<300, 50>>, 260, 20, color, fill))

draw_curve == \E part \in CurveParts, color \in Colors, fill \in BOOLEAN :
    Call("draw_curve", <<<<300, 50>>, 260, 20, part, color, fill>>,
         draw_curve_prog(<<300, 50>>, 260, 20, part, color, fill))

touched == Call("touched", <<>>, touched_prog)

get_touch == Call("get_touch", <<>>, get_touch_prog)

write_str == \E s \in Strs :
    Call("write_str", <<s>>, write_str_prog(s))

fill_contiguous == \E area \in Areas : \E n \in ColorLens(area) :
    Call("fill_contiguous", <<area, ColorSeq(n)>>,
         fill_contiguous_prog(area, ColorSeq(n)))

draw_iter == \E pixels \in PixelSeqs :
    Call("draw_iter", <<pixels>>, draw_iter_prog(pixels))

\* a transport function called on its own, once
transport_call == \E fn \in TransportFns, b \in Payloads :
    Call(fn, <<b>>, transport_prog(fn, b))

(***************************************************************************)
(* Specifications.  Every specification runs the same step actions; each   *)
(* covers one family of operations.                                        *)
(***************************************************************************)
\* a 480x272 or 800x480 panel on a chip with power-on register values
InitPanel ==
    /\ Init
    /\ dims \in Supported
    /\ chip.regs = PowerOnRegs

\* the 480x272 panel
InitSmall ==
    /\ InitPanel
    /\ dims = <<480, 272>>

\* initialisation, the mode state machine and text output
Next ==
    \/ init
    \/ text_mode
    \/ graphics_mode
    \/ write_str
    \/ write_command_step
    \/ write_data_step
    \/ read_data_step
    \/ assign_step
    \/ panic_step
    \/ return_step
    \/ ReadyChange

Spec == Init /\ [][Next]_vars

\* the transport functions, called on their own and from text_mode
NextTransport ==
    \/ transport_call
    \/ transport_call_step
    \/ text_mode
    \/ write_command_step
    \/ write_data_step
    \/ read_data_step
    \/ assign_step
    \/ return_step
    \/ ReadyChange

SpecTransport == Init /\ [][NextTransport]_vars

\* the rectangle engine
NextDraw ==
    \/ draw_rect
    \/ fill_screen
    \/ text_mode
    \/ graphics_mode
    \/ write_command_step
    \/ write_data_step
    \/ read_data_step
    \/ assign_step
    \/ return_step
    \/ ReadyChange
    \/ ChipDone

SpecDraw == InitPanel /\ [][NextDraw]_vars

\* the touch reader
NextTouch ==
    \/ touched
    \/ get_touch
    \/ write_command_step
    \/ write_data_step
    \/ read_data_step
    \/ return_step
    \/ ReadyChange
    \/ TouchEvent

SpecTouch == InitPanel /\ [][NextTouch]_vars

\* the pixel streamer, in either mode
NextPixel ==
    \/ fill_contiguous
    \/ text_mode
    \/ write_command_step
    \/ write_data_step
    \/ read_data_step
    \/ spi_send_step
    \/ cs_step
    \/ assign_step
    \/ return_step
    \/ ReadyChange

SpecPixel == InitSmall /\ [][NextPixel]_vars

\* the pixel iterator of the DrawTarget implementation
NextIter ==
    \/ draw_iter
    \/ text_mode
    \/ write_command_step
    \/ write_data_step
    \/ read_data_step
    \/ spi_send_step
    \/ cs_step
    \/ assign_step
    \/ return_step
    \/ ReadyChange

SpecIter == InitSmall /\ [][NextIter]_vars

\* the pixel streamer over a channel that never reports an error
InitReliable ==
    /\ New(FALSE)
    /\ dims = <<480, 272>>
    /\ chip.regs = PowerOnRegs

SpecReliable == InitReliable /\ [][NextPixel]_vars

\* the raw pixel operations
NextStream ==
    \/ push_pixels
    \/ draw_point
    \/ write_command_step
    \/ write_data_step
    \/ spi_send_step
    \/ cs_step
    \/ assign_step
    \/ return_step
    \/ ReadyChange

SpecStream == InitSmall /\ [][NextStream]_vars

\* the six shape operations, in either mode
NextShape ==
    \/ draw_line
    \/ draw_rect
    \/ draw_circle
    \/ draw_triangle
    \/ draw_ellipse
    \/ draw_curve
    \/ text_mode
    \/ write_command_step
    \/ write_data_step
    \/ read_data_step
    \/ assign_step
    \/ return_step
    \/ ReadyChange
    \/ ChipDone

SpecShape == InitSmall /\ [][NextShape]_vars

\* the operations that change the tracked mode, cursor, scale and colours
NextSettings ==
    \/ text_mode
    \/ graphics_mode
    \/ set_text_scale
    \/ set_cursor
    \/ draw_line
    \/ write_command_step
    \/ write_data_step
    \/ read_data_step
    \/ assign_step
    \/ return_step
    \/ ReadyChange
    \/ ChipDone

SpecSettings == InitSmall /\ [][NextSettings]_vars

\* the 480x272 panel on a chip with either register bank
InitEitherBank ==
    /\ Init
    /\ dims = <<480, 272>>

\* the colour setter, in either mode
NextColors ==
    \/ set_colors_call
    \/ text_mode
    \/ graphics_mode
    \/ write_command_step
    \/ write_data_step
    \/ read_data_step
    \/ assign_step
    \/ return_step
    \/ ReadyChange

SpecColors == InitEitherBank /\ [][NextColors]_vars

\* One shape operation called on a newly constructed driver, over a channel
\* that never reports an error, with a ready pin that goes high again
\* whenever it is low and a driver that takes its next step whenever it can.
\* Whether the chip ever finishes what it was told to draw is left open.
FirstCall == op.name = "new"

NextShapeOnce ==
    \/ FirstCall /\ draw_line
    \/ FirstCall /\ draw_rect
    \/ FirstCall /\ draw_circle
    \/ FirstCall /\ draw_triangle
    \/ FirstCall /\ draw_ellipse
    \/ FirstCall /\ draw_curve
    \/ write_command_step
    \/ write_data_step
    \/ read_data_step
    \/ return_step
    \/ ReadyChange
    \/ ChipDone

ShapeFairness ==
    /\ WF_vars(ReadyChange /\ ready')
    /\ SF_vars(write_command_step /\ txres' = "Ok")
    /\ SF_vars(write_data_step /\ txres' = "Ok")
    /\ SF_vars(read_data_step /\ txres' = "Ok")
    /\ WF_vars(return_step)

SpecShapeFair == InitReliable /\ [][NextShapeOnce]_vars /\ ShapeFairness


(***************************************************************************)
(* Reading the log of an operation.                                        *)
(***************************************************************************)
\* the positions 1..Len(q) of a sequence, in order
Positions(q) == [i \in 1..Len(q) |-> i]

\* the positions of a log at which a transaction starts
TxnStarts(l) ==
    SelectSeq(Positions(l),
              LAMBDA i : /\ i + 3 <= Len(l)
                         /\ l[i] = <<"rdy", 1>>
                         /\ l[i + 1] = <<"cs", 0>>
                         /\ l[i + 2][1] = "tx"
                         /\ l[i + 3][1] = "tx")

\* The transactions in a log, as <<opcode, payload, byte received>>: a ready
\* check, chip select low and two exchanges.
Txns(l) ==
    LET s == TxnStarts(l)
        t == [k \in 1..Len(s) |->
                LET i == s[k]
                IN <<l[i + 2][2], l[i + 3][2],
                     IF i + 4 <= Len(l) /\ l[i + 4][1] = "rx"
                     THEN l[i + 4][2] ELSE 0>>]
    IN SubSeq(t, 1, Len(s))

\* The register accesses in a sequence of transactions: <<"W", addr, value>>
\* for a data write and <<"R", addr, value>> for a data read, addr being the
\* payload of the last command write before it (-1 if there is none).
RegOps(l) ==
    LET t == Txns(l)
        cmds == SelectSeq(Positions(t), LAMBDA i : t[i][1] = CmdWrite)
        data == SelectSeq(Positions(t),
                          LAMBDA i : t[i][1] \in {DataWrite, DataRead})
        addr(i) == LET c == Len(SelectSeq(cmds, LAMBDA j : j < i))
                   IN IF c = 0 THEN -1 ELSE t[cmds[c]][2]
        ops == [k \in 1..Len(data) |->
                  LET i == data[k]
                  IN IF t[i][1] = DataWrite
                     THEN <<"W", addr(i), t[i][2]>>
                     ELSE <<"R", addr(i), t[i][3]>>]
    IN SubSeq(ops, 1, Len(data))

\* the bytes put on the channel
SentBytes(l) == SelectSeq(l, LAMBDA e : e[1] = "tx")

Ended == st # "run"
Unchanged == /\ mode = pre.mode
             /\ text_settings = pre.text_settings
             /\ gfx_settings = pre.gfx_settings
             /\ cs = pre.cs

(***************************************************************************)
(* Claims.                                                                 *)
(***************************************************************************)
AtTransportCall ==
    /\ st = "run"
    /\ todo # <<>>
    /\ Head(todo).k \in {"wcmd", "wdata", "wdataTmp", "rdata", "rpoll", "nb"}

\* C1: a call of write_data, read_data, write_command or read_status that
\* finds the ready pin low returns WouldBlock and changes nothing: chip
\* select keeps its level, no byte is exchanged, the chip and the driver's
\* tracked state are untouched.
C1_NotReadyNoEffect ==
    [][(AtTransportCall /\ ~ready /\ ready' = ready)
        => /\ txres' = "WouldBlock"
           /\ cs' = cs
           /\ log' = log
           /\ chip' = chip
           /\ rx' = rx
           /\ driver' = driver
           /\ (Head(todo).k = "nb" => result' = "WouldBlock" /\ st' = "idle")]_vars

C1_Witness ==
    /\ op.name = "read_status"
    /\ result = "WouldBlock"
    /\ txres = "WouldBlock"
    /\ log = <<>>
    /\ cs = 1

\* C2: for a panel resolution other than 480x272 and 800x480, init() fails
\* and no byte reaches the channel.
C2_UnsupportedNoTraffic ==
    (op.name = "init" /\ dims \notin Supported)
        => /\ SentBytes(log) = <<>>
           /\ (Ended => result # "Ok")

\* C3: an operation during which the channel reported an error ends by
\* returning that error: it neither panics nor reports success.
C3_ChannelErrorReturned ==
    (spi_err /\ Ended) => result = "Err"

\* C4: text_mode() in Text mode and graphics_mode() in Graphics mode cause no
\* ready check, no chip-select change and no byte on the channel, leave the
\* tracked state as it was and return Ok.
C4_ModeCallIdempotent ==
    (\/ op.name = "text_mode" /\ pre.mode = "Text"
     \/ op.name = "graphics_mode" /\ pre.mode = "Graphics")
        => /\ log = <<>>
           /\ txres = "none"
           /\ Unchanged
           /\ (Ended => result = "Ok")

C4_Witness ==
    /\ op.name = "text_mode"
    /\ pre.mode = "Text"
    /\ st = "idle"
    /\ result = "Ok"

\* C5: between operations the tracked mode is Text exactly when bit 7 of the
\* chip's MWCR0 is set.
C5_ModeAgreesWithChip ==
    st = "idle" => ((mode = "Text") <=> (And(chip.regs[Mwcr0], Mwcr0_TxtMode) # 0))

\* C6: write_str in Graphics mode returns an error without a ready check, a
\* chip-select change or a byte on the channel, and leaves the tracked state
\* as it was, whatever the string.
C6_WriteStrRejected ==
    (op.name = "write_str" /\ pre.mode = "Graphics")
        => /\ log = <<>>
           /\ txres = "none"
           /\ Unchanged
           /\ (Ended => result = "FmtErr")

C6_Witness ==
    /\ op.name = "write_str"
    /\ pre.mode = "Graphics"
    /\ Len(op.args[1]) > 0
    /\ st = "idle"
    /\ result = "FmtErr"


Kinds(ops) == [k \in 1..Len(ops) |-> <<ops[k][1], ops[k][2]>>]
W(reg) == <<"W", reg>>
R(reg) == <<"R", reg>>

\* the register accesses of the rectangle protocol up to the trigger write,
\* in the tracked mode m
RectTemplate(m) ==
    <<W(ShapeStartX0), W(ShapeStartX1), W(ShapeStartY0), W(ShapeStartY1),
      W(ShapeEndX0), W(ShapeEndX1), W(ShapeEndY0), W(ShapeEndY1),
      W(Color0), W(Color1), W(Color2)>>
    \o (IF m = "Text" THEN <<R(FontOptions), W(FontOptions)>> ELSE <<>>)
    \o <<W(Dcr)>>

WrittenTo(ops, reg) ==
    {ops[k][3] : k \in {j \in 1..Len(ops) : Kinds(ops)[j] = W(reg)}}

\* the timing register values of the documented formulas, in unbounded
\* integers, and the intermediate results of those formulas
Documented(d) ==
    LET t == Timing(d)
    IN [hdwr |-> d[1] \div 8 - 1,
        hndr |-> (t.hsync_nondisp - t.hsync_finetune - 2) \div 8,
        hstr |-> t.hsync_start \div 8 - 1,
        hpwr |-> t.hsync_pw \div 8 - 1,
        vdhr0 |-> (d[2] - 1) % 256,
        vdhr1 |-> (d[2] - 1) \div 256,
        vndr0 |-> t.vsync_nondisp - 1,
        vstr0 |-> t.vsync_start - 1,
        vpwr |-> t.vsync_pw - 1]

Intermediates(d) ==
    LET t == Timing(d)
    IN {d[1] \div 8 - 1,
        t.hsync_nondisp - t.hsync_finetune,
        t.hsync_nondisp - t.hsync_finetune - 2,
        t.hsync_start \div 8, t.hsync_start \div 8 - 1,
        t.hsync_pw \div 8, t.hsync_pw \div 8 - 1,
        t.vsync_nondisp - 1, t.vsync_start - 1, t.vsync_pw - 1}

Pinned(d) ==
    IF d = <<480, 272>>
    THEN [pcsr |-> 130, hdwr |-> 59, hndr |-> 1, hstr |-> 0, hpwr |-> 5,
          vdhr0 |-> 15, vdhr1 |-> 1, vndr0 |-> 2, vstr0 |-> 7, vpwr |-> 9]
    ELSE [pcsr |-> 129, hdwr |-> 99, hndr |-> 3, hstr |-> 3, hpwr |-> 11,
          vdhr0 |-> 223, vdhr1 |-> 1, vndr0 |-> 31, vstr0 |-> 22, vpwr |-> 1]

\* C8: a completed init() on a supported panel has written to each timing
\* register exactly the value of its documented integer formula, which is
\* the pinned value for that panel, and no intermediate result of the
\* formulas leaves 0..255.
C8_TimingValues ==
    (op.name = "init" /\ dims \in Supported /\ st = "idle" /\ result = "Ok")
        => LET ops == RegOps(log)
               doc == Documented(dims)
               pin == Pinned(dims)
           IN /\ WrittenTo(ops, Pcsr) = {pin.pcsr}
              /\ WrittenTo(ops, Hdwr) = {pin.hdwr} /\ pin.hdwr = doc.hdwr
              /\ WrittenTo(ops, Hndr) = {pin.hndr} /\ pin.hndr = doc.hndr
              /\ WrittenTo(ops, Hstr) = {pin.hstr} /\ pin.hstr = doc.hstr
              /\ WrittenTo(ops, Hpwr) = {pin.hpwr} /\ pin.hpwr = doc.hpwr
              /\ WrittenTo(ops, Vdhr0) = {pin.vdhr0} /\ pin.vdhr0 = doc.vdhr0
              /\ WrittenTo(ops, Vdhr1) = {pin.vdhr1} /\ pin.vdhr1 = doc.vdhr1
              /\ WrittenTo(ops, Vndr0) = {pin.vndr0} /\ pin.vndr0 = doc.vndr0
              /\ WrittenTo(ops, Vstr0) = {pin.vstr0} /\ pin.vstr0 = doc.vstr0
              /\ WrittenTo(ops, Vpwr) = {pin.vpwr} /\ pin.vpwr = doc.vpwr
              /\ Intermediates(dims) \subseteq 0..255

C8_Witness ==
    /\ op.name = "init"
    /\ dims = <<800, 480>>
    /\ st = "idle"
    /\ result = "Ok"
    /\ WrittenTo(RegOps(log), Hndr) = {3}

\* C9: get_touch() returns x = XH * 4 + (L mod 4) and y = YH * 4 +
\* ((L div 4) mod 4) of the three bytes it read, both in 0..1023, whatever
\* the bytes; for XH = 0x12, YH = 0x34, L = 0b1001 that is (0x49, 0xD2).
C9_TouchDecode ==
    (op.name = "get_touch" /\ st = "idle" /\ result = "Ok")
        => LET xh == reads[1]
               yh == reads[2]
               l == reads[3]
           IN /\ retval = <<xh * 4 + (l % 4), yh * 4 + ((l \div 4) % 4)>>
              /\ retval[1] \in 0..1023
              /\ retval[2] \in 0..1023
              /\ (xh = 18 /\ yh = 52 /\ l = 9 => retval = <<73, 210>>)
              /\ \A b \in 0..255 :
                    /\ TouchCoord(b, yh, l)[1] = b * 4 + (l % 4)
                    /\ TouchCoord(xh, b, l)[2] = b * 4 + ((l \div 4) % 4)
                    /\ TouchCoord(xh, yh, b) =
                          <<xh * 4 + (b % 4), yh * 4 + ((b \div 4) % 4)>>

C9_Witness ==
    /\ op.name = "get_touch"
    /\ st = "idle"
    /\ result = "Ok"
    /\ reads = <<18, 52, 9>>
    /\ retval = <<73, 210>>

\* positions in ops where the four cursor registers of one mode are written
\* one after the other
CursorSets(ops) ==
    {k \in 1..(Len(ops) - 3) :
        SubSeq(Kinds(ops), k, k + 3) \in
            {<<W(CurH0), W(CurH1), W(CurV0), W(CurV1)>>,
             <<W(TextX0), W(TextX1), W(TextY0), W(TextY1)>>}}

CursorWrites(ops) ==
    {k \in 1..Len(ops) :
        Kinds(ops)[k] \in {W(CurH0), W(CurH1), W(CurV0), W(CurV1),
                           W(TextX0), W(TextX1), W(TextY0), W(TextY1)}}

MrwcCommands(l) ==
    LET t == Txns(l)
    IN {k \in 1..Len(t) : t[k][1] = CmdWrite /\ t[k][2] = Mrwc}

\* C10: a completed fill_contiguous over a w x h area with at least w*h
\* colours has set the cursor exactly h times and issued the memory-write
\* command exactly h times: once per row, not once per pixel.
C10_OneCursorSetPerRow ==
    (/\ op.name = "fill_contiguous"
     /\ st = "idle"
     /\ result = "Ok"
     /\ Len(op.args[2]) >= op.args[1].w * op.args[1].h)
        => LET ops == RegOps(log)
               h == op.args[1].h
           IN /\ Cardinality(CursorSets(ops)) = h
              /\ Cardinality(CursorWrites(ops)) = 4 * h
              /\ Cardinality(MrwcCommands(log)) = h

C10_Witness ==
    /\ op.name = "fill_contiguous"
    /\ st = "idle"
    /\ result = "Ok"
    /\ op.args[1].w = 3
    /\ op.args[1].h = 2
    /\ Len(op.args[2]) = 6
    /\ Cardinality(CursorSets(RegOps(log))) = 2
    /\ Cardinality(MrwcCommands(log)) = 2


\* the pin and channel events of a completed write_register(addr, v) and of a
\* completed read_register(addr) that received got
WriteFrame(addr, v) ==
    << <<"rdy", 1>>, <<"cs", 0>>, <<"tx", 128>>, <<"tx", addr>>, <<"cs", 1>>,
       <<"rdy", 1>>, <<"cs", 0>>, <<"tx", 0>>, <<"tx", v>>, <<"cs", 1>> >>
ReadFrame(addr, got) ==
    << <<"rdy", 1>>, <<"cs", 0>>, <<"tx", 128>>, <<"tx", addr>>, <<"cs", 1>>,
       <<"rdy", 1>>, <<"cs", 0>>, <<"tx", 64>>, <<"tx", 0>>, <<"rx", got>>,
       <<"cs", 1>> >>

\* C11: a completed write_register(addr, v) puts exactly the bytes 0x80, addr,
\* 0x00, v on the channel and a completed read_register(addr) exactly 0x80,
\* addr, 0x40 and one dummy byte, returning the byte received during the
\* dummy exchange; each opcode and payload pair is two exchanges inside one
\* chip-select cycle, and the data cycle starts after the command cycle ended.
C11_RegisterFraming ==
    (st = "idle" /\ result = "Ok")
        => /\ op.name = "touched"
                => /\ log = ReadFrame(Intc2, reads[1])
                   /\ SentBytes(log) = << <<"tx", 128>>, <<"tx", Intc2>>,
                                          <<"tx", 64>>, <<"tx", 0>> >>
                   /\ retval = <<And(log[10][2], Intc2_TP) # 0>>
           /\ op.name = "get_touch"
                => /\ log = ReadFrame(Tpxh, reads[1]) \o ReadFrame(Tpyh, reads[2])
                            \o ReadFrame(Tpxyl, reads[3])
                            \o WriteFrame(Intc2, Intc2_TP)
                   /\ retval = TouchCoord(log[10][2], log[21][2], log[32][2])

C11_Witness ==
    /\ op.name = "get_touch"
    /\ st = "idle"
    /\ result = "Ok"
    /\ Len(log) = 43
    /\ log[32] = <<"rx", 246>>
    /\ SubSeq(SentBytes(log), 13, 16) =
          << <<"tx", 128>>, <<"tx", Intc2>>, <<"tx", 0>>, <<"tx", Intc2_TP>> >>


\* a write_register or read_register of the running operation has a transport
\* call to make, n events into the operation's log
AtRegisterCall(n) ==
    /\ Running({"wcmd", "wdata", "rdata"})
    /\ Len(log) = n

\* C12: if the ready pin stays low for ever from the call of a write_register
\* or read_register on, the call never returns, neither with success nor
\* with an error, no further byte is exchanged and chip select is never
\* driven low.
C12_NeverReadyNeverReturns ==
    \A n \in 0..(4 * Len(ReadFrame(0, 0))) :
        []((AtRegisterCall(n) /\ []~ready)
              => [](/\ st = "run"
                    /\ result = "none"
                    /\ Len(log) = n
                    /\ cs = 1))

C12_Witness ==
    /\ op.name = "get_touch"
    /\ st = "run"
    /\ txres = "WouldBlock"
    /\ ~ready
    /\ todo = get_touch_prog
    /\ log = <<>>
    /\ cs = 1


\* C13: whenever a public operation has returned, with success or with an
\* error, chip select has been driven back high.
C13_SelectHighOnReturn ==
    (st = "idle" /\ result \in {"Ok", "Err", "FmtErr"}) => cs = 1


\* the positions of a log that hold an opcode byte: the first byte after
\* chip select went low
OpcodePositions(l) ==
    {i \in 2..Len(l) : l[i][1] = "tx" /\ l[i - 1] = <<"cs", 0>>}

\* C14: every opcode byte put on the channel, the data-write opcode that
\* opens a pixel stream included, is immediately preceded by a read of the
\* ready pin that returned high.
C14_OpcodeAfterReady ==
    \A i \in OpcodePositions(log) : i > 2 /\ log[i - 2] = <<"rdy", 1>>


\* n times the sequence q
RECURSIVE Repeat(_, _)
Repeat(q, n) == IF n = 0 THEN <<>> ELSE q \o Repeat(q, n - 1)

\* C15: a completed push_pixels(n, color) has issued one MRWC command
\* transaction and one data-write opcode, followed by exactly 2 * n payload
\* bytes, the high byte then the low byte of the colour for each pixel,
\* inside one chip-select cycle; for n = 0 no colour byte is sent.
C15_PushPixelsStream ==
    (op.name = "push_pixels" /\ st = "idle" /\ result = "Ok")
        => LET n == op.args[1]
               color == op.args[2]
               hi == color \div 256
               lo == color % 256
           IN /\ log = << <<"rdy", 1>>, <<"cs", 0>>, <<"tx", CmdWrite>>,
                          <<"tx", Mrwc>>, <<"cs", 1>>,
                          <<"cs", 0>>, <<"tx", DataWrite>> >>
                       \o Repeat(<< <<"tx", hi>>, <<"tx", lo>> >>, n)
                       \o << <<"cs", 1>> >>
              /\ Len(SentBytes(log)) = 3 + 2 * n
              /\ Cardinality(MrwcCommands(log)) = 1
              /\ (n = 0 => SentBytes(log) = << <<"tx", CmdWrite>>, <<"tx", Mrwc>>,
                                               <<"tx", DataWrite>> >>)

C15_Witness ==
    /\ op.name = "push_pixels"
    /\ op.args = <<2, 63519>>
    /\ st = "idle"
    /\ result = "Ok"
    /\ SentBytes(log) = << <<"tx", 128>>, <<"tx", 2>>, <<"tx", 0>>,
                           <<"tx", 248>>, <<"tx", 31>>, <<"tx", 248>>, <<"tx", 31>> >>


\* C16: a completed text_mode() called in Graphics mode has written to
\* register 0x21 a value whose bit 7 and bit 5 are 0, and 0x00 to register
\* 0x2F, whatever the register bank held.
C16_InternalFontSelected ==
    (op.name = "text_mode" /\ pre.mode = "Graphics" /\ st = "idle" /\ result = "Ok")
        => LET ops == RegOps(log)
           IN /\ WrittenTo(ops, FontControl0) # {}
              /\ \A v \in WrittenTo(ops, FontControl0) :
                    And(v, 2 ^ 7) = 0 /\ And(v, 2 ^ 5) = 0
              /\ WrittenTo(ops, SerialFontRom) = {0}


ShapeOps == {"draw_line", "draw_rect", "draw_circle", "draw_triangle",
             "draw_ellipse", "draw_curve"}

\* the geometry registers of a shape operation, in the order of its writes
ShapeGeometry(name) ==
    CASE name \in {"draw_line", "draw_rect"} ->
            <<ShapeStartX0, ShapeStartX1, ShapeStartY0, ShapeStartY1,
              ShapeEndX0, ShapeEndX1, ShapeEndY0, ShapeEndY1>>
      [] name = "draw_circle" ->
            <<CircleX0, CircleX1, CircleY0, CircleY1, CircleR>>
      [] name = "draw_triangle" ->
            <<ShapeStartX0, ShapeStartX1, ShapeStartY0, ShapeStartY1,
              ShapeEndX0, ShapeEndX1, ShapeEndY0, ShapeEndY1,
              TriangleP2X0, TriangleP2X1, TriangleP2Y0, TriangleP2Y1>>
      [] OTHER ->
            <<EllipseCenterX0, EllipseCenterX1, EllipseCenterY0, EllipseCenterY1,
              EllipseLongA0, EllipseLongA1, EllipseShortB0, EllipseShortB1>>

ShapeTrigger(name) ==
    IF name \in {"draw_ellipse", "draw_curve"} THEN DrawEllipseCR ELSE Dcr

ShapeBusyBit(name) == IF name = "draw_circle" THEN 64 ELSE 128

\* the register accesses the shape protocol prescribes up to the trigger
ShapeTemplate(name) ==
    [k \in 1..Len(ShapeGeometry(name)) |-> W(ShapeGeometry(name)[k])]
    \o <<W(Color0), W(Color1), W(Color2), W(ShapeTrigger(name))>>

\* the log of a completed shape operation follows the protocol
ShapeProtocolFollowed ==
    LET ops == RegOps(log)
        n == Len(ShapeTemplate(op.name))
        busy == ShapeBusyBit(op.name)
    IN /\ Len(ops) > n
       /\ SubSeq(Kinds(ops), 1, n) = ShapeTemplate(op.name)
       /\ And(ops[n][3], busy) = busy
       /\ \A k \in (n + 1)..Len(ops) : Kinds(ops)[k] = R(ShapeTrigger(op.name))
       /\ (npolls < MaxPolls => And(ops[Len(ops)][3], busy) = 0)
       /\ And(rx, busy) = 0

\* C17: the register traffic of a completed shape operation is: the geometry
\* register writes, the three foreground colour writes, one write of the
\* trigger register with the start bit set, then reads of the trigger
\* register only, the last of which has the start bit clear; nothing is
\* written after the trigger.
C17_ShapeProtocol ==
    (op.name \in ShapeOps /\ st = "idle" /\ result = "Ok")
        => ShapeProtocolFollowed


\* the running shape operation has written its trigger: what it has still to
\* do is the command and the read of its loop, and the return
Polling ==
    /\ st = "run"
    /\ op.name \in ShapeOps
    /\ Len(todo) \in {2, 3}

\* the chip holds the start bit of the running shape operation set
Busy == And(chip.regs[ShapeTrigger(op.name)], ShapeBusyBit(op.name)) # 0

\* C18: with a ready pin that reads high again and again, every shape
\* operation that was called returns, provided the chip clears the start bit
\* of what it was told to draw; and if the chip never clears the start bit,
\* the operation stays in its loop, reads the trigger register again and
\* again, and never returns.
C18_ShapeTermination ==
    /\ (Busy ~> ~Busy)
          => ((st = "run" /\ op.name \in ShapeOps) ~> (st = "idle" /\ result = "Ok"))
    /\ []((Polling /\ []Busy)
            => /\ []Polling
               /\ []<>Running({"wcmd"})
               /\ []<>Running({"rpoll"}))

C18_Witness ==
    /\ op.name = "draw_ellipse"
    /\ st = "idle"
    /\ result = "Ok"
    /\ npolls > 0
    /\ ~Busy


\* q occurs in ops as a run of consecutive register accesses
Occurs(q, ops) ==
    \E k \in 0..(Len(ops) - Len(q)) : SubSeq(ops, k + 1, k + Len(q)) = q

\* the register writes that realise a cursor, in the tracked mode m
CursorRealised(m, c) ==
    IF m = "Graphics"
    THEN << <<"W", CurH0, U16(c[1]) % 256>>, <<"W", CurH1, U16(c[1]) \div 256>>,
            <<"W", CurV0, U16(c[2]) % 256>>, <<"W", CurV1, U16(c[2]) \div 256>> >>
    ELSE << <<"W", TextX0, U16(c[1]) % 256>>, <<"W", TextX1, U16(c[1]) \div 256>>,
            <<"W", TextY0, U16(c[2]) % 256>>, <<"W", TextY1, U16(c[2]) \div 256>> >>

\* the register writes that realise a foreground colour
ColourRealised(c) ==
    << <<"W", Color0, c \div 2048>>, <<"W", Color1, (c \div 32) % 64>>,
       <<"W", Color2, c % 32>> >>

ScaleBits(scale) == IF scale >= 3 THEN 15 ELSE 5 * scale

\* C19: in every reachable state, the states in the middle of an operation
\* and those an operation that failed stopped in included, a tracked value
\* differs from its value at the call only if the register writes that
\* realise the new value have completed: MWCR0 (and 0x21 and 0x2F on the way
\* to Text) for the mode, the four cursor registers for a cursor, the
\* read and write of FontOptions for the text scale, the colour registers
\* and the transparency flag for the text colours.
C19_TrackedAfterHardware ==
    LET ops == RegOps(log)
        k == Kinds(ops)
    IN /\ (mode # pre.mode /\ mode = "Text")
            => /\ Len(ops) >= 5
               /\ SubSeq(k, 1, 5) = <<R(Mwcr0), W(Mwcr0), R(FontControl0),
                                      W(FontControl0), W(SerialFontRom)>>
               /\ And(ops[2][3], Mwcr0_TxtMode) # 0
       /\ (mode # pre.mode /\ mode = "Graphics")
            => /\ Len(ops) >= 2
               /\ SubSeq(k, 1, 2) = <<R(Mwcr0), W(Mwcr0)>>
               /\ And(ops[2][3], Mwcr0_TxtMode) = 0
       /\ gfx_settings.cursor # pre.gfx_settings.cursor
            => Occurs(CursorRealised("Graphics", gfx_settings.cursor), ops)
       /\ text_settings.cursor # pre.text_settings.cursor
            => Occurs(CursorRealised("Text", text_settings.cursor), ops)
       /\ text_settings.text_scale # pre.text_settings.text_scale
            => /\ Len(ops) >= 2
               /\ SubSeq(k, 1, 2) = <<R(FontOptions), W(FontOptions)>>
               /\ ops[2][3] = (ops[1][3] \div 16) * 16
                              + ScaleBits(text_settings.text_scale)
       /\ (\/ text_settings.fg_color # pre.text_settings.fg_color
           \/ text_settings.bg_color # pre.text_settings.bg_color)
            => \E r \in 0..255 :
                  Occurs(ColourRealised(text_settings.fg_color)
                         \o << <<"R", FontOptions, r>>,
                               <<"W", FontOptions, Or(r, 64)>> >>, ops)
       /\ text_settings.transparency = pre.text_settings.transparency
       /\ gfx_settings.color = pre.gfx_settings.color

\* an operation that failed on its way left the tracked state as it was
C19_Witness ==
    /\ op.name = "set_cursor"
    /\ pre.mode = "Text"
    /\ st = "panic"
    /\ Len(RegOps(log)) = 3
    /\ text_settings.cursor = pre.text_settings.cursor
    /\ text_settings.cursor # op.args[1]


\* the byte a write-back step writes when the byte read before it was r
WrittenBack(i, r) ==
    IF i.k = "wdataTmp" THEN Or(And(r, i.a), i.b) ELSE i.a

\* C20: a mode change flips the mode bit and nothing else.  A completed
\* text_mode() called in Graphics mode has read MWCR0 and written back the
\* byte it read with bit 7 set; a completed graphics_mode() called in Text
\* mode has read MWCR0 and written back the byte it read with bit 7 clear;
\* and for each of the 256 values the read can return, the write-back step
\* of either operation keeps the seven other bits.
C20_ModeBitOnly ==
    /\ (op.name = "text_mode" /\ pre.mode = "Graphics" /\ st = "idle" /\ result = "Ok")
          => LET ops == RegOps(log)
             IN /\ Len(ops) >= 2
                /\ Kinds(ops)[1] = R(Mwcr0)
                /\ ops[2] = <<"W", Mwcr0, (ops[1][3] % 128) + 128>>
                /\ Cardinality(WrittenTo(ops, Mwcr0)) = 1
    /\ (op.name = "graphics_mode" /\ pre.mode = "Text" /\ st = "idle" /\ result = "Ok")
          => LET ops == RegOps(log)
             IN /\ ops = << <<"R", Mwcr0, ops[1][3]>>,
                            <<"W", Mwcr0, ops[1][3] % 128>> >>
    /\ (st = "idle" /\ mode = "Graphics")
          => \A r \in 0..255 : WrittenBack(text_mode_prog[3], r) = (r % 128) + 128
    /\ (st = "idle" /\ mode = "Text")
          => \A r \in 0..255 : WrittenBack(graphics_mode_prog[3], r) = r % 128

C20_Witness ==
    /\ op.name = "graphics_mode"
    /\ pre.mode = "Text"
    /\ st = "idle"
    /\ result = "Ok"
    /\ RegOps(log) = << <<"R", Mwcr0, 134>>, <<"W", Mwcr0, 6>> >>


\* C21: a shape operation stores none of its inputs: at every point of it,
\* and after it, the tracked mode and both tracked settings records are what
\* they were at the call, in either mode, and it writes neither a text
\* background colour register nor the font-options register that holds the
\* transparency flag.
C21_ShapeStoresNothing ==
    op.name \in ShapeOps
        => /\ mode = pre.mode
           /\ text_settings = pre.text_settings
           /\ gfx_settings = pre.gfx_settings
           /\ \A reg \in {TextBg0, TextBg1, TextBg2, FontOptions} :
                 WrittenTo(RegOps(log), reg) = {}


\* q is an initial part of r
IsPrefix(q, r) == Len(q) <= Len(r) /\ SubSeq(r, 1, Len(q)) = q

\* C22: set_cursor acts on the state of the tracked mode only.  Called in
\* Graphics mode it writes CURH0, CURH1, CURV0, CURV1 and nothing else and
\* changes the tracked graphics cursor and nothing else; called in Text mode
\* it writes the text cursor registers 0x2A..0x2D and nothing else and
\* changes the tracked text cursor and nothing else.  This holds at every
\* point of the call; a completed call has written all four bytes of the new
\* position and tracks it.
C22_SetCursorDispatch ==
    op.name = "set_cursor"
        => LET ops == RegOps(log)
               want == CursorRealised(pre.mode, op.args[1])
           IN /\ IsPrefix(ops, want)
              /\ mode = pre.mode
              /\ pre.mode = "Graphics"
                    => /\ text_settings = pre.text_settings
                       /\ gfx_settings.color = pre.gfx_settings.color
                       /\ gfx_settings.cursor \in {pre.gfx_settings.cursor, op.args[1]}
              /\ pre.mode = "Text"
                    => /\ gfx_settings = pre.gfx_settings
                       /\ text_settings \in
                             {pre.text_settings,
                              [pre.text_settings EXCEPT !.cursor = op.args[1]]}
              /\ (st = "idle" /\ result = "Ok")
                    => /\ ops = want
                       /\ pre.mode = "Graphics" => gfx_settings.cursor = op.args[1]
                       /\ pre.mode = "Text" => text_settings.cursor = op.args[1]

C22_Witness ==
    /\ op.name = "set_cursor"
    /\ op.args = << <<300, 50>> >>
    /\ pre.mode = "Text"
    /\ st = "idle"
    /\ result = "Ok"
    /\ text_settings.cursor = <<300, 50>>
    /\ gfx_settings.cursor = <<10, 10>>
    /\ RegOps(log) = << <<"W", 42, 44>>, <<"W", 43, 1>>,
                        <<"W", 44, 50>>, <<"W", 45, 0>> >>


\* the register writes that realise a background colour
BgRealised(c) ==
    << <<"W", TextBg0, c \div 2048>>, <<"W", TextBg1, (c \div 32) % 64>>,
       <<"W", TextBg2, c % 32>> >>

Bit6(r) == (r \div 64) % 2
SetBit6(r) == IF Bit6(r) = 1 THEN r ELSE r + 64
ClearBit6(r) == IF Bit6(r) = 1 THEN r - 64 ELSE r

\* the register accesses of set_colors(fg, bg) in the tracked mode m, when
\* the font-options register reads r
ColoursTemplate(m, fg, bg, r) ==
    ColourRealised(fg)
    \o (IF m = "Graphics" THEN <<>>
        ELSE IF bg # <<>>
        THEN BgRealised(bg[1])
             \o << <<"R", FontOptions, r>>, <<"W", FontOptions, ClearBit6(r)>> >>
        ELSE << <<"R", FontOptions, r>>, <<"W", FontOptions, SetBit6(r)>> >>)

\* C23: set_colors(fg, bg) in Graphics mode writes the three foreground
\* colour registers, red = bits 15..11, green = bits 10..5, blue = bits 4..0
\* of fg, and nothing else, whatever bg is.  In Text mode it writes the same
\* three, then for bg = Some(c) the three background registers and the
\* font-options register as read with bit 6 cleared, and for bg = None the
\* font-options register as read with bit 6 set.  The three bytes written
\* for a colour recombine to it, for every 16-bit colour.
C23_SetColors ==
    /\ op.name = "set_colors"
          => LET ops == RegOps(log)
                 fg == op.args[1]
                 bg == op.args[2]
             IN /\ \E r \in 0..255 :
                      IsPrefix(ops, ColoursTemplate(pre.mode, fg, bg, r))
                /\ (st = "idle" /\ result = "Ok")
                      => /\ \E r \in 0..255 :
                               ops = ColoursTemplate(pre.mode, fg, bg, r)
                         /\ ops[1][3] * 2048 + ops[2][3] * 32 + ops[3][3] = fg
                         /\ ops[1][3] < 32 /\ ops[2][3] < 64 /\ ops[3][3] < 32
    /\ (op.name = "new" /\ st = "idle")
          => \A c \in 0..65535 :
                LET p == set_colors(c, <<>>)
                IN /\ Len(p) = 6
                   /\ <<p[1].a, p[3].a, p[5].a>> = <<Color0, Color1, Color2>>
                   /\ p[2].a < 32 /\ p[4].a < 64 /\ p[6].a < 32
                   /\ p[2].a * 2048 + p[4].a * 32 + p[6].a = c

C23_Witness ==
    /\ op.name = "set_colors"
    /\ op.args = <<43981, <<21930>> >>
    /\ pre.mode = "Text"
    /\ st = "idle"
    /\ result = "Ok"
    /\ RegOps(log) = << <<"W", Color0, 21>>, <<"W", Color1, 30>>, <<"W", Color2, 13>>,
                        <<"W", TextBg0, 10>>, <<"W", TextBg1, 45>>, <<"W", TextBg2, 10>>,
                        <<"R", FontOptions, 74>>, <<"W", FontOptions, 10>> >>


\* the chip holds a touch event that has not been cleared
TouchPending == And(chip.regs[Intc2], Intc2_TP) # 0

\* C24: get_touch() reads TPXH, TPYH and TPXYL, in that order, before its
\* one register write, which is INTC2 with exactly the touch-event bit 0x04;
\* touched() reads INTC2 and writes nothing; and a pending touch event is
\* cleared by a step of get_touch() only, so it stays pending across any
\* number of touched() calls.
C24_TouchOrder ==
    /\ [](op.name = "get_touch"
            => LET ops == RegOps(log)
               IN /\ IsPrefix(Kinds(ops), <<R(Tpxh), R(Tpyh), R(Tpxyl), W(Intc2)>>)
                  /\ Len(ops) = 4 => ops[4] = <<"W", Intc2, 4>>
                  /\ (st = "idle" /\ result = "Ok") => Len(ops) = 4)
    /\ [](op.name = "touched"
            => /\ IsPrefix(Kinds(RegOps(log)), <<R(Intc2)>>)
               /\ (st = "idle" /\ result = "Ok") => Len(RegOps(log)) = 1)
    /\ [][(TouchPending /\ ~TouchPending')
             => (op.name = "get_touch" /\ st = "run" /\ Len(RegOps(log)) = 3)]_vars

C24_Witness ==
    /\ op.name = "touched"
    /\ st = "idle"
    /\ result = "Ok"
    /\ retval = <<TRUE>>
    /\ TouchPending
    /\ RegOps(log) = << <<"R", Intc2, 4>> >>


\* the geometric parameters of the shape operation called, in the order of
\* its arguments
ShapeParams ==
    CASE op.name \in {"draw_line", "draw_rect"} ->
            <<op.args[1][1], op.args[1][2], op.args[2][1], op.args[2][2]>>
      [] op.name = "draw_circle" ->
            <<op.args[1][1], op.args[1][2], op.args[2]>>
      [] op.name = "draw_triangle" ->
            <<op.args[1][1], op.args[1][2], op.args[2][1], op.args[2][2],
              op.args[3][1], op.args[3][2]>>
      [] OTHER ->
            <<op.args[1][1], op.args[1][2], op.args[2], op.args[3]>>

\* the register writes of a log that come before the first colour write
GeometryWrites(ops) ==
    LET first == SelectSeq(Positions(ops), LAMBDA i : Kinds(ops)[i] = W(Color0))
    IN IF first = <<>> THEN ops ELSE SubSeq(ops, 1, first[1] - 1)

\* C25: a completed shape operation has written each of its geometric
\* parameters as two bytes, the low byte then the high byte, and
\* high * 256 + low equals the parameter.
C25_GeometryBytes ==
    (op.name \in ShapeOps /\ st = "idle" /\ result = "Ok")
        => LET g == GeometryWrites(RegOps(log))
               p == ShapeParams
           IN /\ Len(g) = 2 * Len(p)
              /\ \A i \in 1..Len(p) :
                    /\ g[2 * i - 1][1] = "W"
                    /\ g[2 * i][1] = "W"
                    /\ g[2 * i][3] * 256 + g[2 * i - 1][3] = p[i]


\* the events of a completed write_command(command)
CommandFrame(command) ==
    << <<"rdy", 1>>, <<"cs", 0>>, <<"tx", CmdWrite>>, <<"tx", command>>,
       <<"cs", 1>> >>

\* what a row of a pixel stream starts with: chip select high, the cursor set
\* to c in the tracked mode m, the memory-write command, chip select low and
\* the data-write opcode
RowHeader(m, c) ==
    LET w == CursorRealised(m, c)
    IN << <<"cs", 1>> >>
       \o WriteFrame(w[1][2], w[1][3]) \o WriteFrame(w[2][2], w[2][3])
       \o WriteFrame(w[3][2], w[3][3]) \o WriteFrame(w[4][2], w[4][3])
       \o CommandFrame(Mrwc)
       \o << <<"cs", 0>>, <<"tx", DataWrite>> >>

\* the two bytes of colours[k + 1], the k-th colour counted from 0
ColourBytes(colors, k) ==
    << <<"tx", colors[k + 1] \div 256>>, <<"tx", colors[k + 1] % 256>> >>

\* The events of the rows j, j + 1, .. of a fill in which the k-th colour,
\* for k = 0 .. n - 1, goes to the pixel (x0 + k mod w, y0 + k div w): a row
\* starts where that pixel has column x0.
RECURSIVE RowMajorFrom(_, _, _, _, _)
RowMajorFrom(m, area, colors, n, j) ==
    IF j * area.w >= n THEN <<>>
    ELSE LET last == Min(n, (j + 1) * area.w) - 1
             ks == [i \in 1..(last - j * area.w + 1) |-> j * area.w + i - 1]
             bytes == [i \in 1..(2 * Len(ks)) |->
                         ColourBytes(colors, ks[(i + 1) \div 2])[2 - (i % 2)]]
         IN RowHeader(m, <<area.x + 0, area.y + j>>)
            \o bytes
            \o RowMajorFrom(m, area, colors, n, j + 1)

\* C26: fill_contiguous over an area with top-left (x0, y0), width w and
\* height h takes the first min(length of the sequence, w * h) colours, each
\* once and in order, and streams the k-th of them (k from 0), high byte
\* first, as the pixel at (x0 + k mod w, y0 + k div w).
C26_RowMajorOnce ==
    (op.name = "fill_contiguous" /\ st = "idle" /\ result = "Ok")
        => LET area == op.args[1]
               colors == op.args[2]
               n == Min(Len(colors), area.w * area.h)
           IN log = RowMajorFrom(pre.mode, area, colors, n, 0)

C26_Witness ==
    /\ op.name = "fill_contiguous"
    /\ op.args[1].w = 3
    /\ op.args[1].h = 2
    /\ Len(op.args[2]) = 5
    /\ st = "idle"
    /\ result = "Ok"
    /\ SubSeq(log, Len(log) - 3, Len(log)) =
          << <<"tx", 7>>, <<"tx", 224>>, <<"tx", 248>>, <<"tx", 31>> >>


\* C27: the corners a completed fill_screen writes to the shape start/end
\* registers are (0, 0) and (width - 1, height - 1), the corners of the
\* active window [0, width - 1] x [0, height - 1] that init programs.
C27_FillScreenCorners ==
    (op.name = "fill_screen" /\ st = "idle" /\ result = "Ok")
        => LET g == GeometryWrites(RegOps(log))
           IN /\ Len(g) = 8
              /\ \A i \in 1..8 : g[i][1] = "W"
              /\ <<g[1][2], g[2][2], g[3][2], g[4][2]>> =
                    <<ShapeStartX0, ShapeStartX1, ShapeStartY0, ShapeStartY1>>
              /\ <<g[5][2], g[6][2], g[7][2], g[8][2]>> =
                    <<ShapeEndX0, ShapeEndX1, ShapeEndY0, ShapeEndY1>>
              /\ g[2][3] * 256 + g[1][3] = 0
              /\ g[4][3] * 256 + g[3][3] = 0
              /\ g[6][3] * 256 + g[5][3] = dims[1] - 1
              /\ g[8][3] * 256 + g[7][3] = dims[2] - 1


\* the events of one drawn pixel in the tracked mode m: the cursor set to c,
\* the memory-write command, and the framed stream of the two colour bytes
PointEvents(m, c, color) ==
    LET w == CursorRealised(m, c)
    IN WriteFrame(w[1][2], w[1][3]) \o WriteFrame(w[2][2], w[2][3])
       \o WriteFrame(w[3][2], w[3][3]) \o WriteFrame(w[4][2], w[4][3])
       \o CommandFrame(Mrwc)
       \o << <<"cs", 0>>, <<"tx", DataWrite>>, <<"tx", color \div 256>>,
             <<"tx", color % 256>>, <<"cs", 1>> >>

InPanel(c) == c[1] >= 0 /\ c[1] < dims[1] /\ c[2] >= 0 /\ c[2] < dims[2]

\* the events of the pixels k, k + 1, .. when the pixels outside the panel
\* cause none
RECURSIVE ClippedEvents(_, _, _)
ClippedEvents(m, pixels, k) ==
    IF k > Len(pixels) THEN <<>>
    ELSE (IF InPanel(pixels[k][1])
          THEN PointEvents(m, pixels[k][1], pixels[k][2])
          ELSE <<>>)
         \o ClippedEvents(m, pixels, k + 1)

\* draw_iter, as long as the channel reports no error, has produced a prefix
\* of the pixels' events, and all of them when it returns Ok
DrawIterClipped ==
    (op.name = "draw_iter" /\ ~spi_err)
        => /\ IsPrefix(log, ClippedEvents(pre.mode, op.args[1], 1))
           /\ (st = "idle" /\ result = "Ok")
                 => log = ClippedEvents(pre.mode, op.args[1], 1)

\* C28: draw_iter produces no register traffic for a pixel outside
\* [0, width) x [0, height) and, for every pixel inside, one cursor set
\* followed by one memory write of the pixel's two colour bytes, in the
\* order the pixels are supplied; a channel error on a pixel ends the call,
\* which returns that error.
C28_DrawIterClips ==
    op.name = "draw_iter"
        => /\ DrawIterClipped
           /\ (spi_err /\ Ended) => result = "Err"

\* the same, for the channel errors that reach draw_point's own `?`
DrawIterStreamErrorReturned ==
    (op.name = "draw_iter" /\ spi_err /\ Ended /\ txres # "Panic")
        => result = "Err"

=============================================================================
